---- MODULE Spec2Model ----
(***************************************************************************)
(* A model of the request gateway of the AI scammer-simulation API         *)
(* (src/server/server.py) and of its two backend adapters                  *)
(* (src/backend/generative/mistral.py, llama_3_2_3b_instruct.py).          *)
(*                                                                         *)
(* Strings are sequences of one-character strings.  The numeric limits of  *)
(* Config and of the pydantic fields are scaled down (1000 -> 3 and so     *)
(* on); every comparison is the one the source makes.                      *)
(***************************************************************************)
EXTENDS Integers, Sequences, FiniteSets, TLC

\* ---------------------------------------------------------------- bounds

\* Longest raw string drawn as a message content or a backend text.
MaxStrLen == 4
\* Longest content of a message inside a drawn conversation.
MaxConvStrLen == 3
\* Longest content drawn as the classification backend's answer.
MaxBackendLen == 7
\* Most pieces a drawn answer of the generation backend is made of.
MaxReplyTokens == 4
\* Longest API key and longest presented credential drawn for the log.
MaxCredLen == 4
\* Number of request workers (threads of the thread pool) that run at once.
NWorkers == 2
\* The clock runs from 0 to MaxClock.
MaxClock == 2
\* Requests are accepted until this many have been admitted by the limiter.
MaxAdmits == 3

\* ------------------------------------------------------- program constants

\* config.RATE_LIMIT_REQUESTS (default 10), scaled.
RATE_LIMIT_REQUESTS == 2
\* config.RATE_LIMIT_WINDOW in seconds (default 60), scaled to clock ticks.
RATE_LIMIT_WINDOW == 2
\* Message.content max_length (1000), scaled.
MAX_CONTENT_LENGTH == 3
\* ConversationRequest.conversation max_length (50), scaled.
MAX_MESSAGES == 2
\* config.MAX_CONVERSATION_LENGTH (default 5000), scaled.
MAX_CONVERSATION_LENGTH == 4
\* config.MAX_TEXT_LENGTH (default 2000), scaled.
MAX_TEXT_LENGTH == 3

\* The number of leading characters of a key that verify_api_key and the
\* startup code log (10), scaled.
LOG_PREFIX == 2

\* ----------------------------------------------------------------- strings

SP == " "
NL == "\n"
COMMA == ","

\* The characters str.strip() removes (those of the model's alphabet).
Whitespace == {SP, NL}

StringsOver(chars, n) == UNION {[1..k -> chars] : k \in 0..n}

Last(s) == s[Len(s)]
Front(s) == SubSeq(s, 1, Len(s) - 1)

RECURSIVE LStrip(_)
LStrip(s) ==
  IF s = <<>> THEN <<>>
  ELSE IF Head(s) \in Whitespace THEN LStrip(Tail(s)) ELSE s

RECURSIVE RStrip(_)
RStrip(s) ==
  IF s = <<>> THEN <<>>
  ELSE IF Last(s) \in Whitespace THEN RStrip(Front(s)) ELSE s

\* str.strip()
Strip(s) == RStrip(LStrip(s))

\* str.split(sep) for a one-character separator: always at least one token.
RECURSIVE SplitOn(_, _)
SplitOn(s, sep) ==
  IF s = <<>> THEN << <<>> >>
  ELSE LET rest == SplitOn(Tail(s), sep) IN
       IF Head(s) = sep THEN << <<>> >> \o rest
       ELSE << <<Head(s)>> \o Head(rest) >> \o Tail(rest)

\* str.splitlines(): no line for the empty string, none after a final newline.
SplitLines(s) ==
  IF s = <<>> THEN <<>>
  ELSE LET parts == SplitOn(s, NL) IN
       IF Last(parts) = <<>> THEN Front(parts) ELSE parts

\* str.startswith(prefix)
StartsWith(s, prefix) ==
  /\ Len(s) >= Len(prefix)
  /\ SubSeq(s, 1, Len(prefix)) = prefix

\* s[len(prefix):]
DropPrefix(s, prefix) == SubSeq(s, Len(prefix) + 1, Len(s))

RECURSIVE SumSeq(_)
SumSeq(ns) == IF ns = <<>> THEN 0 ELSE Head(ns) + SumSeq(Tail(ns))

\* ------------------------------------------------- request validation

NoErr == "none"

\* Field(..., min_length=1, max_length=maxLen) on a str: checked on the raw
\* value, before any mode='after' field_validator runs.
FieldLengthError(raw, maxLen) ==
  IF Len(raw) < 1 THEN "string_too_short"
  ELSE IF Len(raw) > maxLen THEN "string_too_long"
  ELSE NoErr

Rejected(err) == [ok |-> FALSE, err |-> err, value |-> <<>>]
Accepted(v) == [ok |-> TRUE, err |-> NoErr, value |-> v]

\* The validator testing the raw value instead of the trimmed one.
content_must_not_be_empty_raw(v) ==
  IF v = <<>> THEN Rejected("Content cannot be empty")
  ELSE Accepted(Strip(v))

\* Message.content_must_not_be_empty
content_must_not_be_empty(v) ==
  IF Strip(v) = <<>> THEN Rejected("Content cannot be empty")
  ELSE Accepted(Strip(v))

\* A validator that trims first and then applies the length limits.
ValidateContentTrimFirst(raw) ==
  LET e == FieldLengthError(Strip(raw), MAX_CONTENT_LENGTH) IN
  IF Strip(raw) = <<>> THEN Rejected("Content cannot be empty")
  ELSE IF e # NoErr THEN Rejected(e)
  ELSE Accepted(Strip(raw))

\* Validation of Message.content: the Field limits, then the validator.
ValidateContent(raw) ==
  LET e == FieldLengthError(raw, MAX_CONTENT_LENGTH) IN
  IF e # NoErr THEN Rejected(e) ELSE content_must_not_be_empty(raw)

\* role: Literal["scammer", "user"]
Roles == {"scammer", "user"}

\* Validation of one Message; the value carries the trimmed content.
ValidateMessage(m) ==
  LET c == ValidateContent(m.content) IN
  IF m.role \notin Roles THEN Rejected("literal_error")
  ELSE IF ~c.ok THEN Rejected(c.err)
  ELSE [ok |-> TRUE, err |-> NoErr,
        value |-> [role |-> m.role, content |-> c.value]]

\* The length validator with the limit compared by >= instead of >.
validate_conversation_length_ge(v) ==
  LET total_length == SumSeq([i \in 1..Len(v) |-> Len(v[i].content)]) IN
  IF total_length >= MAX_CONVERSATION_LENGTH
  THEN Rejected("Total conversation length cannot exceed the maximum")
  ELSE Accepted(v)

\* ConversationRequest.validate_conversation_length, on validated messages.
validate_conversation_length(v) ==
  LET total_length == SumSeq([i \in 1..Len(v) |-> Len(v[i].content)]) IN
  IF total_length > MAX_CONVERSATION_LENGTH
  THEN Rejected("Total conversation length cannot exceed the maximum")
  ELSE Accepted(v)

\* Validation of ConversationRequest.conversation: every item, the list
\* limits of Field(..., min_length=1, max_length=50), then the validator.
ValidateConversation(conv) ==
  LET items == [i \in 1..Len(conv) |-> ValidateMessage(conv[i])] IN
  IF Len(conv) > MAX_MESSAGES THEN Rejected("too_long")
  ELSE IF \E i \in 1..Len(conv) : ~items[i].ok
       THEN Rejected(items[CHOOSE i \in 1..Len(conv) : ~items[i].ok].err)
  ELSE IF Len(conv) < 1 THEN Rejected("too_short")
  ELSE validate_conversation_length([i \in 1..Len(conv) |-> items[i].value])

\* EmailInput.text_must_not_be_empty
text_must_not_be_empty(v) ==
  IF Strip(v) = <<>> THEN Rejected("Text cannot be empty")
  ELSE Accepted(Strip(v))

\* Validation of EmailInput.text.
ValidateText(raw) ==
  LET e == FieldLengthError(raw, MAX_TEXT_LENGTH) IN
  IF e # NoErr THEN Rejected(e) ELSE text_must_not_be_empty(raw)

\* ------------------------------------------------------ backend adapters

\* What the outbound HTTP call of an adapter can do: requests.post raises
\* Timeout or ConnectionError, raise_for_status raises HTTPError, the JSON
\* has no "choices", anything else goes wrong (no token configured, a body
\* that is not JSON, a content that is not a string), or a content arrives.
BackendFailures == {"timeout", "connection", "http", "nochoices", "other"}

Raised(msg) == [raised |-> TRUE, msg |-> msg, text |-> <<>>]
Returned(text) == [raised |-> FALSE, msg |-> "", text |-> text]

\* The except clauses of both adapters: every failure becomes a ValueError.
AdapterError(kind) ==
  CASE kind = "timeout" -> Raised("Request timed out")
    [] kind = "connection" -> Raised("Connection error to API")
    [] kind = "http" -> Raised("HTTP error: <e>")
    [] kind = "nochoices" -> Raised("API request failed: Unexpected response format")
    [] OTHER -> Raised("API request failed: <e>")

\* mistral.SecureAPIClient.generate_reply (imported as predict_reply).
predict_reply(convo_text, ev) ==
  IF Strip(convo_text) = <<>> THEN Raised("Conversation text cannot be empty")
  ELSE IF ev.kind # "content" THEN AdapterError(ev.kind)
  ELSE Returned(Strip(ev.text))

UserPrefix == <<"U", "s", "e", "r", ":">>
ScammerPrefix == <<"S", "c", "a", "m", "m", "e", "r", ":">>

\* The cleanup removing every leading role prefix, not only the first.
RECURSIVE clean_reply_repeated(_)
clean_reply_repeated(reply) ==
  IF StartsWith(Strip(reply), UserPrefix)
  THEN clean_reply_repeated(DropPrefix(Strip(reply), UserPrefix))
  ELSE IF StartsWith(Strip(reply), ScammerPrefix)
       THEN clean_reply_repeated(DropPrefix(Strip(reply), ScammerPrefix))
  ELSE Strip(reply)

\* SecureLlamaClient.clean_reply
clean_reply(reply) ==
  IF StartsWith(reply, UserPrefix) THEN Strip(DropPrefix(reply, UserPrefix))
  ELSE IF StartsWith(reply, ScammerPrefix)
       THEN Strip(DropPrefix(reply, ScammerPrefix))
  ELSE Strip(reply)

\* llama_3_2_3b_instruct.SecureLlamaClient.generate_reply
generate_reply(convo_text, ev) ==
  IF Strip(convo_text) = <<>> THEN Raised("Conversation text cannot be empty")
  ELSE IF ev.kind # "content" THEN AdapterError(ev.kind)
  ELSE Returned(clean_reply(ev.text))

\* ------------------------------------------------------------ responses

NoResponse ==
  [status |-> 0, detail |-> "", kind |-> "none", label |-> <<>>, tags |-> <<>>,
   justification |-> <<>>, reply |-> <<>>, conversation_length |-> 0]

\* The response FastAPI builds from a raised HTTPException.
HttpError(status, detail) ==
  [NoResponse EXCEPT !.status = status, !.detail = detail, !.kind = "error"]

ClassificationResponse(label, tags, justification) ==
  [NoResponse EXCEPT !.status = 200, !.kind = "classification",
                     !.label = label, !.tags = tags,
                     !.justification = justification]

ReplyResponse(reply, conversation_length) ==
  [NoResponse EXCEPT !.status = 200, !.kind = "reply", !.reply = reply,
                     !.conversation_length = conversation_length]

\* What a try block ends with: an exception or a returned response.
Throw(type, status, msg) ==
  [raised |-> TRUE, type |-> type, status |-> status, msg |-> msg,
   resp |-> NoResponse]
Return(resp) ==
  [raised |-> FALSE, type |-> "", status |-> 0, msg |-> "", resp |-> resp]

\* ------------------------------------------------- /api/classify handler

\* The parse with the format check accepting a single line.
ParseClassificationOneLine(output) ==
  LET lines == SplitLines(output) IN
  IF Len(lines) < 1
  THEN Throw("HTTPException", 500, "Invalid classification response format")
  ELSE LET labels == SplitOn(lines[1], COMMA)
           tags == IF Len(labels) > 1
                   THEN [i \in 1..(Len(labels) - 1) |-> Strip(labels[i + 1])]
                   ELSE <<>>
       IN Return(ClassificationResponse(Strip(labels[1]), tags,
                   IF Len(lines) > 1 THEN Strip(lines[2]) ELSE <<>>))

\* The parse with the label left among the tags.
ParseClassificationKeepLabel(output) ==
  LET lines == SplitLines(output) IN
  IF output = <<>>
  THEN Throw("HTTPException", 500, "Failed to generate classification")
  ELSE IF Len(lines) < 2
  THEN Throw("HTTPException", 500, "Invalid classification response format")
  ELSE LET labels == SplitOn(lines[1], COMMA) IN
       Return(ClassificationResponse(Strip(labels[1]),
                [i \in 1..Len(labels) |-> Strip(labels[i])], Strip(lines[2])))

\* classify_email, from "if not output" to the returned response.
ParseClassification(output) ==
  LET lines == SplitLines(output) IN
  IF output = <<>>
  THEN Throw("HTTPException", 500, "Failed to generate classification")
  ELSE IF Len(lines) < 2
  THEN Throw("HTTPException", 500, "Invalid classification response format")
  ELSE LET labels == SplitOn(lines[1], COMMA)
           prediction_label == Strip(labels[1])
           tags == IF Len(labels) > 1
                   THEN [i \in 1..(Len(labels) - 1) |-> Strip(labels[i + 1])]
                   ELSE <<>>
           justification == Strip(lines[2])
       IN Return(ClassificationResponse(prediction_label, tags, justification))

\* The try block of classify_email: the backend call, then the parse.
classify_try(text, ev) ==
  LET output == predict_reply(text, ev) IN
  IF output.raised THEN Throw("ValueError", 0, output.msg)
  ELSE ParseClassification(output.text)

\* An except clause that reports the exception's own text.
classify_email_leak(text, ev) ==
  LET r == classify_try(text, ev) IN
  IF r.raised THEN HttpError(500, r.msg) ELSE r.resp

\* classify_email: whatever the try block raises, HTTPException included,
\* is replaced by one fixed 500.
classify_email(text, ev) ==
  LET r == classify_try(text, ev) IN
  IF r.raised THEN HttpError(500, "Failed to process classification request")
  ELSE r.resp

\* ------------------------------------------- /api/generate-reply handler

\* message.role.title()
Title(role) ==
  IF role = "user" THEN <<"U", "s", "e", "r">>
  ELSE <<"S", "c", "a", "m", "m", "e", "r">>

\* "\n".join(lines)
RECURSIVE JoinLines(_)
JoinLines(lines) ==
  IF lines = <<>> THEN <<>>
  ELSE IF Len(lines) = 1 THEN lines[1]
  ELSE lines[1] \o <<NL>> \o JoinLines(Tail(lines))

\* The transcript with no space after the colon.
ConversationTextNoSpace(conv) ==
  JoinLines([i \in 1..Len(conv) |->
               Title(conv[i].role) \o <<":">> \o conv[i].content])

\* The flattened transcript of a validated conversation.
ConversationText(conv) ==
  JoinLines([i \in 1..Len(conv) |->
               Title(conv[i].role) \o <<":", SP>> \o conv[i].content])

\* The try block without the test for an empty reply.
generate_try_unchecked(conv, ev) ==
  LET conversation_text == ConversationText(conv)
      reply == generate_reply(conversation_text, ev)
  IN
  IF reply.raised THEN Throw("ValueError", 0, reply.msg)
  ELSE Return(ReplyResponse(Strip(reply.text), Len(conversation_text)))

\* The try block of generate_reply_api.
generate_try(conv, ev) ==
  LET conversation_text == ConversationText(conv)
      reply == generate_reply(conversation_text, ev)
  IN
  IF reply.raised THEN Throw("ValueError", 0, reply.msg)
  ELSE IF reply.text = <<>>
  THEN Throw("HTTPException", 500, "Failed to generate reply")
  ELSE Return(ReplyResponse(Strip(reply.text), Len(conversation_text)))

\* generate_reply_api
generate_reply_api(conv, ev) ==
  LET r == generate_try(conv, ev) IN
  IF r.raised
  THEN HttpError(500, "Failed to process reply generation request")
  ELSE r.resp

\* ---------------------------------------------------------------- state

VARIABLES
  clock,      \* what datetime.now() returns
  requests,   \* rate_limiter.requests: client_ip -> list of timestamps
  th,         \* per worker: the request it serves and where it stands
  admits,     \* history: per client_ip and timestamp, how many calls of
              \* is_allowed returned True with that timestamp
  stage,      \* which function a function-level specification applies
  input,      \* the input drawn for it
  output      \* its result

vars == <<clock, requests, th, admits, stage, input, output>>

Workers == 1..NWorkers

\* config.API_KEY and the bearer credentials a request may present.
API_KEY == "key-configured"
NoCred == "no-authorization-header"
Credentials == {API_KEY, "key-other", NoCred}

\* request.client: absent, or a host.
NoClient == "no-client"
Clients == {NoClient, "10.0.0.2"}

\* Every request filed under one key.
ClientIpShared(client) == "127.0.0.1"

\* check_rate_limit's client_ip
ClientIp(client) == IF client = NoClient THEN "127.0.0.1" ELSE client

\* The keys rate_limiter.requests can hold.
Hosts == {ClientIp(c) : c \in Clients}

Endpoints == {"classify", "generate", "health"}

\* Request bodies the gateway specifications draw: per endpoint a valid one
\* and invalid ones.
ClassifyBodies == { <<"a", SP>>, <<SP>> }
GenerateBodies ==
  { << [role |-> "scammer", content |-> <<"a", SP>>] >>,
    << [role |-> "user", content |-> <<SP>>] >> }
Bodies(endpoint) ==
  CASE endpoint = "classify" -> ClassifyBodies
    [] endpoint = "generate" -> GenerateBodies
    [] OTHER -> { <<>> }

\* Contents the backend may answer with in the gateway specifications.
BackendTexts ==
  { <<>>, <<"a", COMMA, "a", NL, "a">>, UserPrefix \o <<SP, "a">> }
BackendEvents ==
  [kind : BackendFailures, text : { <<>> }]
    \cup [kind : {"content"}, text : BackendTexts]

\* The validator of an endpoint's body.
ValidateBody(endpoint, body) ==
  CASE endpoint = "classify" -> ValidateText(body)
    [] endpoint = "generate" -> ValidateConversation(body)
    [] OTHER -> Accepted(body)

Idle ==
  [pc |-> "idle", endpoint |-> "", cred |-> "", client |-> "", body |-> <<>>,
   now |-> 0, kept |-> <<>>, stale |-> FALSE,
   allowed |-> "pending", data |-> <<>>, called |-> FALSE, failed |-> FALSE,
   resp |-> NoResponse]

\* The dependencies resolved in the order with the limiter first.
PipelineLimiterFirst == <<"rl_now", "auth", "validate", "handler">>

\* The order in which a request to /api/classify or /api/generate-reply is
\* processed: the dependencies verify_api_key and check_rate_limit in the
\* order of the signature, then the body model, then the handler.
Pipeline == <<"auth", "rl_now", "validate", "handler">>

StageAfter(s) ==
  Pipeline[(CHOOSE i \in 1..Len(Pipeline) : Pipeline[i] = s) + 1]

RECURSIVE SumOver(_, _)
SumOver(S, f) ==
  IF S = {} THEN 0
  ELSE LET x == CHOOSE y \in S : TRUE IN f[x] + SumOver(S \ {x}, f)

Times == 0..MaxClock

\* How many admissions of client_ip ip carry a timestamp in T.
AdmitsIn(ip, T) == SumOver(T, [t \in T |-> admits[ip][t]])

TotalAdmits == SumOver(Hosts, [h \in Hosts |-> AdmitsIn(h, Times)])

InitGateway ==
  /\ clock = 0
  /\ requests = [c \in Hosts |-> <<>>]
  /\ th = [w \in Workers |-> Idle]
  /\ admits = [c \in Hosts |-> [t \in Times |-> 0]]

Init ==
  /\ InitGateway
  /\ stage = "gateway"
  /\ input = <<>>
  /\ output = <<>>

\* ------------------------------------------------------------- actions

Pure == <<stage, input, output>>

\* The arrival with /api/health put behind the same dependencies as the
\* other endpoints.
ReceiveHealthLimited(w) ==
  /\ th[w].pc = "idle"
  /\ TotalAdmits < MaxAdmits
  /\ \E endpoint \in Endpoints, cred \in Credentials, client \in Clients :
       \E body \in Bodies(endpoint) :
         th' = [th EXCEPT ![w] =
                  [Idle EXCEPT !.pc = Pipeline[1],
                               !.endpoint = endpoint, !.cred = cred,
                               !.client = client, !.body = body]]
  /\ UNCHANGED <<clock, requests, admits, Pure>>

\* A request arrives at worker w.  /api/health declares no dependency and
\* no body, so it goes straight to its handler.
Receive(w) ==
  /\ th[w].pc = "idle"
  /\ TotalAdmits < MaxAdmits
  /\ \E endpoint \in Endpoints, cred \in Credentials, client \in Clients :
       \E body \in Bodies(endpoint) :
         th' = [th EXCEPT ![w] =
                  [Idle EXCEPT !.pc = IF endpoint = "health" THEN "handler"
                                      ELSE Pipeline[1],
                               !.endpoint = endpoint, !.cred = cred,
                               !.client = client, !.body = body]]
  /\ UNCHANGED <<clock, requests, admits, Pure>>

\* verify_api_key: the response it raises, NoResponse when it returns.
verify_api_key(cred) ==
  IF cred # API_KEY THEN HttpError(401, "Invalid API key") ELSE NoResponse

\* HTTPBearer, then verify_api_key.  A request without the header is
\* refused by HTTPBearer itself, with 403 or 401 depending on the FastAPI
\* release installed (setup.py asks for fastapi>=0.104.0).
Authenticate(w) ==
  /\ th[w].pc = "auth"
  /\ IF th[w].cred = NoCred
     THEN \E st \in {401, 403} :
            th' = [th EXCEPT ![w].pc = "done",
                             ![w].resp = HttpError(st, "Not authenticated")]
     ELSE IF verify_api_key(th[w].cred) # NoResponse
     THEN th' = [th EXCEPT ![w].pc = "done",
                           ![w].resp = verify_api_key(th[w].cred)]
     ELSE th' = [th EXCEPT ![w].pc = StageAfter("auth")]
  /\ UNCHANGED <<clock, requests, admits, Pure>>

\* The filter with the subtraction the wrong way round.
FreshReversed(now, req_time) == req_time - now < RATE_LIMIT_WINDOW

\* A timestamp exactly one window old still counted as recent.
FreshInclusive(now, req_time) == now - req_time <= RATE_LIMIT_WINDOW

\* is_allowed's filter: now - req_time < timedelta(seconds=RATE_LIMIT_WINDOW)
Fresh(now, req_time) == now - req_time < RATE_LIMIT_WINDOW

\* The cap compared by > instead of >=.
OverCapStrict(n) == n > RATE_LIMIT_REQUESTS

\* is_allowed's test: len(self.requests[client_ip]) >= RATE_LIMIT_REQUESTS
OverCap(n) == n >= RATE_LIMIT_REQUESTS

\* is_allowed: now = datetime.now()
RlNow(w) ==
  /\ th[w].pc = "rl_now"
  /\ th' = [th EXCEPT ![w].pc = "rl_filter", ![w].now = clock]
  /\ UNCHANGED <<clock, requests, admits, Pure>>

\* is_allowed: the list comprehension reads the client's list.
RlFilter(w) ==
  /\ th[w].pc = "rl_filter"
  /\ th' = [th EXCEPT ![w].pc = "rl_assign",
              ![w].kept = SelectSeq(requests[ClientIp(th[w].client)],
                                    LAMBDA t : Fresh(th[w].now, t))]
  /\ UNCHANGED <<clock, requests, admits, Pure>>

\* is_allowed: the new list is stored.  A worker that has fetched the old
\* list object to append to it now holds a list nobody reads any more.
RlAssign(w) ==
  LET ip == ClientIp(th[w].client) IN
  /\ th[w].pc = "rl_assign"
  /\ requests' = [requests EXCEPT ![ip] = th[w].kept]
  /\ th' = [u \in Workers |->
              IF u = w THEN [th[u] EXCEPT !.pc = "rl_check", !.kept = <<>>]
              ELSE IF th[u].pc = "rl_append" /\ ClientIp(th[u].client) = ip
              THEN [th[u] EXCEPT !.stale = TRUE]
              ELSE th[u]]
  /\ UNCHANGED <<clock, admits, Pure>>

\* is_allowed returns False and check_rate_limit raises 429, or goes on.
RlCheck(w) ==
  /\ th[w].pc = "rl_check"
  /\ IF OverCap(Len(requests[ClientIp(th[w].client)]))
     THEN th' = [th EXCEPT ![w].pc = "done", ![w].allowed = "no",
                   ![w].resp = HttpError(429,
                       "Rate limit exceeded. Please try again later.")]
     ELSE th' = [th EXCEPT ![w].pc = "rl_fetch"]
  /\ UNCHANGED <<clock, requests, admits, Pure>>

\* is_allowed: self.requests[client_ip] is fetched for the append.
RlFetch(w) ==
  /\ th[w].pc = "rl_fetch"
  /\ th' = [th EXCEPT ![w].pc = "rl_append", ![w].stale = FALSE]
  /\ UNCHANGED <<clock, requests, admits, Pure>>

\* is_allowed: .append(now) on the fetched list, and return True.
RlAppend(w) ==
  LET ip == ClientIp(th[w].client) IN
  /\ th[w].pc = "rl_append"
  /\ requests' = IF th[w].stale THEN requests
                 ELSE [requests EXCEPT ![ip] = Append(@, th[w].now)]
  /\ admits' = [admits EXCEPT ![ip][th[w].now] = @ + 1]
  /\ th' = [th EXCEPT ![w].pc = StageAfter("rl_now"), ![w].allowed = "yes",
                      ![w].stale = FALSE]
  /\ UNCHANGED <<clock, Pure>>

\* The body passed on to the handler without validating it.
ValidateSkipped(w) ==
  /\ th[w].pc = "validate"
  /\ th' = [th EXCEPT ![w].pc = StageAfter("validate"),
                      ![w].data = th[w].body]
  /\ UNCHANGED <<clock, requests, admits, Pure>>

\* The body is validated against the endpoint's model; FastAPI answers a
\* failure with 422 and does not call the handler.
Validate(w) ==
  LET v == ValidateBody(th[w].endpoint, th[w].body) IN
  /\ th[w].pc = "validate"
  /\ IF v.ok
     THEN th' = [th EXCEPT ![w].pc = StageAfter("validate"),
                           ![w].data = v.value]
     ELSE th' = [th EXCEPT ![w].pc = "done",
                           ![w].resp = HttpError(422, v.err)]
  /\ UNCHANGED <<clock, requests, admits, Pure>>

\* classify_email or generate_reply_api runs, its backend call included.
Handle(w) ==
  /\ th[w].pc = "handler"
  /\ th[w].endpoint # "health"
  /\ \E ev \in BackendEvents :
       th' = [th EXCEPT ![w].pc = "done", ![w].called = TRUE,
                ![w].failed = (ev.kind # "content"),
                ![w].resp = IF th[w].endpoint = "classify"
                            THEN classify_email(th[w].data, ev)
                            ELSE generate_reply_api(th[w].data, ev)]
  /\ UNCHANGED <<clock, requests, admits, Pure>>

\* health_check
Health(w) ==
  /\ th[w].pc = "handler"
  /\ th[w].endpoint = "health"
  /\ th' = [th EXCEPT ![w].pc = "done",
              ![w].resp = [NoResponse EXCEPT !.status = 200, !.kind = "health",
                                             !.detail = "healthy"]]
  /\ UNCHANGED <<clock, requests, admits, Pure>>

\* The response is sent and the worker is free again.
Finish(w) ==
  /\ th[w].pc = "done"
  /\ th' = [th EXCEPT ![w] = Idle]
  /\ UNCHANGED <<clock, requests, admits, Pure>>

\* Time passes.
Tick ==
  /\ clock < MaxClock
  /\ clock' = clock + 1
  /\ UNCHANGED <<requests, th, admits, Pure>>

Next ==
  \/ \E w \in Workers : Receive(w)
  \/ \E w \in Workers : Authenticate(w)
  \/ \E w \in Workers : RlNow(w)
  \/ \E w \in Workers : RlFilter(w)
  \/ \E w \in Workers : RlAssign(w)
  \/ \E w \in Workers : RlCheck(w)
  \/ \E w \in Workers : RlFetch(w)
  \/ \E w \in Workers : RlAppend(w)
  \/ \E w \in Workers : Validate(w)
  \/ \E w \in Workers : Handle(w)
  \/ \E w \in Workers : Health(w)
  \/ \E w \in Workers : Finish(w)
  \/ Tick

\* Requests from any number of clients, served by NWorkers threads at once.
Spec == Init /\ [][Next]_vars

\* ------------------------------------------- requests served one at a time

\* A request arrives while no other request is being served.
ReceiveAlone(w) ==
  /\ \A u \in Workers : th[u].pc = "idle"
  /\ Receive(w)

NextSeq ==
  \/ \E w \in Workers : ReceiveAlone(w)
  \/ \E w \in Workers : Authenticate(w)
  \/ \E w \in Workers : RlNow(w)
  \/ \E w \in Workers : RlFilter(w)
  \/ \E w \in Workers : RlAssign(w)
  \/ \E w \in Workers : RlCheck(w)
  \/ \E w \in Workers : RlFetch(w)
  \/ \E w \in Workers : RlAppend(w)
  \/ \E w \in Workers : Validate(w)
  \/ \E w \in Workers : Handle(w)
  \/ \E w \in Workers : Health(w)
  \/ \E w \in Workers : Finish(w)
  \/ Tick

\* The gateway with every request finished before the next one arrives.
SpecSeq == Init /\ [][NextSeq]_vars

\* ------------------------------------------- function-level specifications

Gateway == <<clock, requests, th, admits>>

\* Message validation applied to every drawn message.
MessageChars == {SP, NL, "a"}
MessageInputs ==
  [role : Roles \cup {"bot"}, content : StringsOver(MessageChars, MaxStrLen)]

InitMessage ==
  /\ InitGateway
  /\ stage = "message"
  /\ input \in MessageInputs
  /\ output = <<>>

ValidateMessageStep ==
  /\ stage = "message"
  /\ output' = ValidateMessage(input)
  /\ stage' = "message_done"
  /\ UNCHANGED <<input, Gateway>>

SpecMessage == InitMessage /\ [][ValidateMessageStep]_vars

\* ConversationRequest validation applied to every drawn conversation, of
\* 0 to MAX_MESSAGES + 1 messages.
ConversationMessages ==
  [role : Roles, content : StringsOver({SP, "a"}, MaxConvStrLen)]
ConversationInputs ==
  UNION {[1..k -> ConversationMessages] : k \in 0..(MAX_MESSAGES + 1)}

InitConversation ==
  /\ InitGateway
  /\ stage = "conversation"
  /\ input \in ConversationInputs
  /\ output = <<>>

ValidateConversationStep ==
  /\ stage = "conversation"
  /\ output' = ValidateConversation(input)
  /\ stage' = "conversation_done"
  /\ UNCHANGED <<input, Gateway>>

SpecConversation == InitConversation /\ [][ValidateConversationStep]_vars

\* classify_email applied to every drawn content of the backend's answer.
BackendChars == {"a", COMMA, SP, NL}
ClassifyInputs == StringsOver(BackendChars, MaxBackendLen)

InitClassify ==
  /\ InitGateway
  /\ stage = "classify"
  /\ input \in ClassifyInputs
  /\ output = <<>>

ClassifyStep ==
  /\ stage = "classify"
  /\ output' = classify_email(<<"a">>, [kind |-> "content", text |-> input])
  /\ stage' = "classify_done"
  /\ UNCHANGED <<input, Gateway>>

SpecClassify == InitClassify /\ [][ClassifyStep]_vars

\* Reply cleanup and generate_reply_api applied to every drawn content of the
\* generation backend's answer: up to MaxReplyTokens pieces, each a role
\* prefix, a near miss of one, a space or a letter.
ReplyTokens ==
  { UserPrefix, ScammerPrefix, <<SP>>, <<"h">>,
    <<"u", "s", "e", "r", ":">>, <<"U", "s", "e", "r">> }

RECURSIVE Flatten(_)
Flatten(ts) == IF ts = <<>> THEN <<>> ELSE Head(ts) \o Flatten(Tail(ts))

ReplyInputs ==
  {Flatten(ts) : ts \in UNION {[1..k -> ReplyTokens] : k \in 0..MaxReplyTokens}}

\* The conversation the reply is generated for.
ReplyConversation == << [role |-> "scammer", content |-> <<"h">>] >>

InitReply ==
  /\ InitGateway
  /\ stage = "reply"
  /\ input \in ReplyInputs
  /\ output = <<>>

CleanReplyStep ==
  /\ stage = "reply"
  /\ output' = clean_reply(input)
  /\ stage' = "clean_done"
  /\ UNCHANGED <<input, Gateway>>

GenerateReplyStep ==
  /\ stage = "reply"
  /\ output' = generate_reply_api(ReplyConversation,
                                  [kind |-> "content", text |-> input])
  /\ stage' = "generate_done"
  /\ UNCHANGED <<input, Gateway>>

NextReply == CleanReplyStep \/ GenerateReplyStep

SpecReply == InitReply /\ [][NextReply]_vars

\* generate_reply_api applied to every drawn conversation that passes
\* validation; sent is the transcript handed to the generation backend.
TranscriptStep ==
  LET v == ValidateConversation(input) IN
  /\ stage = "conversation"
  /\ output' = IF v.ok
               THEN [sent |-> ConversationText(v.value),
                     resp |-> generate_reply_api(v.value,
                                [kind |-> "content", text |-> <<"h">>])]
               ELSE [sent |-> <<>>, resp |-> HttpError(422, v.err)]
  /\ stage' = "transcript_done"
  /\ UNCHANGED <<input, Gateway>>

SpecTranscript == InitConversation /\ [][TranscriptStep]_vars

\* What the gateway writes to its log for one request, from process start
\* to the response: the startup lines, the log_requests middleware around the
\* request, HTTPBearer and verify_api_key inside it.  input is the configured
\* key and the Authorization header of the request, output is the log, each
\* entry a fixed text and the value formatted into it.  Lines that carry
\* neither a key nor a header (origins, client address) are left out.
CredChars == {"k", "x"}
LogInputs ==
  [key : StringsOver(CredChars, MaxCredLen) \ { <<>> },
   header : {TRUE}, cred : StringsOver(CredChars, MaxCredLen)]
    \cup [key : StringsOver(CredChars, MaxCredLen) \ { <<>> },
          header : {FALSE}, cred : { <<>> }]

LogEntry(msg, arg) == [msg |-> msg, arg |-> arg]

\* value[:10] followed by "..."
LoggedPrefix(value) ==
  SubSeq(value, 1, IF Len(value) < LOG_PREFIX THEN Len(value) ELSE LOG_PREFIX)
    \o <<".", ".", ".">>

\* dict(request.headers), its authorization entry.
HeadersLogged(in) ==
  IF in.header THEN <<"B", "e", "a", "r", "e", "r", SP>> \o in.cred ELSE <<>>

InitLog ==
  /\ InitGateway
  /\ stage = "startup"
  /\ input \in LogInputs
  /\ output = <<>>

\* logger.info(f"API_KEY loaded: {config.API_KEY[:10]}...")
LogStartup ==
  /\ stage = "startup"
  /\ output' = Append(output,
                      LogEntry("API_KEY loaded: ", LoggedPrefix(input.key)))
  /\ stage' = "request"
  /\ UNCHANGED <<input, Gateway>>

\* log_requests, before call_next
LogRequest ==
  /\ stage = "request"
  /\ output' = output \o << LogEntry("[REQUEST] ", <<>>),
                            LogEntry("[HEADERS] ", HeadersLogged(input)) >>
  /\ stage' = "auth"
  /\ UNCHANGED <<input, Gateway>>

\* HTTPBearer refuses a request without the header and logs nothing;
\* verify_api_key logs the prefixes, and once more on a mismatch.
LogVerify ==
  /\ stage = "auth"
  /\ output' =
       IF ~input.header THEN output
       ELSE output
              \o << LogEntry("Received API key: ", LoggedPrefix(input.cred)),
                    LogEntry("Expected API key: ", LoggedPrefix(input.key)) >>
              \o (IF input.cred # input.key
                  THEN << LogEntry("Invalid API key attempt. Received: ",
                                   LoggedPrefix(input.cred)),
                          LogEntry("Expected: ", LoggedPrefix(input.key)) >>
                  ELSE <<>>)
  /\ stage' = "response"
  /\ UNCHANGED <<input, Gateway>>

\* log_requests, after call_next
LogResponse ==
  /\ stage = "response"
  /\ output' = Append(output, LogEntry("[RESPONSE] ", <<>>))
  /\ stage' = "logged"
  /\ UNCHANGED <<input, Gateway>>

NextLog == LogStartup \/ LogRequest \/ LogVerify \/ LogResponse

SpecLog == InitLog /\ [][NextLog]_vars

\* ------------------------------------------------------ message content

MessageDone == stage = "message_done" /\ input.role \in Roles

OnlyWhitespace(s) == \A i \in 1..Len(s) : s[i] \in Whitespace

ConversationDone == stage = "conversation_done"

EachMessageValid == \A i \in 1..Len(input) : ValidateMessage(input[i]).ok

RECURSIVE TrimmedTotal(_)
TrimmedTotal(conv) ==
  IF conv = <<>> THEN 0
  ELSE Len(Strip(Head(conv).content)) + TrimmedTotal(Tail(conv))

RECURSIVE RawTotal(_)
RawTotal(conv) ==
  IF conv = <<>> THEN 0 ELSE Len(Head(conv).content) + RawTotal(Tail(conv))

\* C8: a conversation of individually valid messages is rejected when it
\* has no message or more than MAX_MESSAGES, and with 1..MAX_MESSAGES
\* messages is accepted exactly when the trimmed content lengths sum to at
\* most MAX_CONVERSATION_LENGTH.
C8_CountAndTotal ==
  (ConversationDone /\ EachMessageValid) =>
    (output.ok <=> /\ Len(input) >= 1
                   /\ Len(input) <= MAX_MESSAGES
                   /\ TrimmedTotal(input) <= MAX_CONVERSATION_LENGTH)

\* C8, its case: a conversation of MAX_MESSAGES valid messages whose trimmed
\* lengths sum to exactly the limit, and whose raw lengths sum to more, has
\* been accepted.
C8_Witness ==
  /\ ConversationDone
  /\ EachMessageValid
  /\ Len(input) = MAX_MESSAGES
  /\ TrimmedTotal(input) = MAX_CONVERSATION_LENGTH
  /\ RawTotal(input) > MAX_CONVERSATION_LENGTH
  /\ output.ok

\* ------------------------------------------------- classification parse

ClassifyDone == stage = "classify_done"

\* The text classify_email receives from predict_reply for the drawn content.
BackendText == Strip(input)

\* The positions of character ch in s, and the k-th of them (Len(s) + 1 when
\* there are fewer than k).
Positions(s, ch) == {i \in 1..Len(s) : s[i] = ch}
Position(s, ch, k) ==
  IF Cardinality(Positions(s, ch)) < k THEN Len(s) + 1
  ELSE CHOOSE i \in Positions(s, ch) :
         Cardinality({j \in Positions(s, ch) : j < i}) = k - 1

\* The k-th piece of s between occurrences of ch, counted from 1.
Piece(s, ch, k) ==
  SubSeq(s, IF k = 1 THEN 1 ELSE Position(s, ch, k - 1) + 1,
            Position(s, ch, k) - 1)

\* A text from predict_reply carries no newline at its end, so it has at
\* least two lines exactly when it contains a newline.
LineCount(s) == IF s = <<>> THEN 0 ELSE Cardinality(Positions(s, NL)) + 1

FirstLine == Piece(BackendText, NL, 1)
SecondLine == Piece(BackendText, NL, 2)

\* C9: for a backend text of at least two lines the result is a
\* classification with label = the trimmed first comma token of line 1,
\* tags = the other comma tokens of line 1, trimmed and in order (none
\* without a comma), justification = the trimmed line 2; further lines and
\* the label's value play no part.
C9_ParseTwoLines ==
  (ClassifyDone /\ LineCount(BackendText) >= 2) =>
    /\ output.status = 200
    /\ output.kind = "classification"
    /\ output.label = Strip(Piece(FirstLine, COMMA, 1))
    /\ Len(output.tags) = Cardinality(Positions(FirstLine, COMMA))
    /\ \A k \in 1..Len(output.tags) :
         output.tags[k] = Strip(Piece(FirstLine, COMMA, k + 1))
    /\ output.justification = Strip(SecondLine)

\* C9, its case: a text of three lines, the third not empty, with two
\* different tags has been parsed.
C9_Witness ==
  /\ ClassifyDone
  /\ LineCount(BackendText) >= 3
  /\ Piece(BackendText, NL, 3) # <<>>
  /\ output.status = 200
  /\ Len(output.tags) = 2
  /\ output.tags[1] # output.tags[2]
  /\ output.label # <<>>

\* C10: for a backend text of fewer than two lines, the empty text
\* included, /classify answers a 500 failure and no classification.
C10_FewerThanTwoLines ==
  (ClassifyDone /\ LineCount(BackendText) < 2) =>
    /\ output.status = 500
    /\ output.kind = "error"
    /\ output.detail = "Failed to process classification request"

\* C10, its case: a single line with a label and a tag has been answered
\* with the failure.
C10_Witness ==
  /\ ClassifyDone
  /\ LineCount(BackendText) = 1
  /\ Positions(BackendText, COMMA) # {}
  /\ Piece(BackendText, COMMA, 1) # <<>>
  /\ output.status = 500

\* ------------------------------------------------------- rate limiting

\* The timestamps of the window that ends at T: those less than
\* RATE_LIMIT_WINDOW before T.
Window(T) == {t \in Times : t <= T /\ T - t < RATE_LIMIT_WINDOW}

\* How many times timestamp t stands in the record of client_ip ip.
Recorded(ip, t) == Cardinality({i \in 1..Len(requests[ip]) : requests[ip][i] = t})

\* No window holds more admissions of one client than the cap.
NoOverAdmission ==
  \A ip \in Hosts : \A T \in Times :
    AdmitsIn(ip, Window(T)) <= RATE_LIMIT_REQUESTS

\* Every admitted timestamp that is still inside the current window stands
\* in the client's record.
NoLostTimestamp ==
  \A ip \in Hosts : \A t \in Window(clock) : Recorded(ip, t) >= admits[ip][t]

\* C1: concurrent checks for one client behave as if serialized: no window
\* holds more admissions than RATE_LIMIT_REQUESTS and no admitted timestamp
\* is lost from the client's record.
C1_Serialized == NoOverAdmission /\ NoLostTimestamp

\* A request to a limited endpoint that has been answered.
Answered(w) == th[w].pc = "done" /\ th[w].endpoint # "health"

\* The limiter's answer to the request of worker w, once it has one.
Checked(w) == Answered(w) /\ th[w].allowed # "pending"

\* The admissions of the request's client inside the window that ends at the
\* request's own timestamp, the request's own admission left out.
EarlierInWindow(w) ==
  AdmitsIn(ClientIp(th[w].client), Window(th[w].now))
    - (IF th[w].allowed = "yes" THEN 1 ELSE 0)

\* The admissions of the request's client before the request, at any time.
EarlierAt(w, t) ==
  admits[ClientIp(th[w].client)][t]
    - (IF th[w].allowed = "yes" /\ t = th[w].now THEN 1 ELSE 0)

\* C2: with the checks made one at a time, a request that finds
\* RATE_LIMIT_REQUESTS admissions of its client inside its window is
\* rejected, and a request whose client's admissions are all at least
\* RATE_LIMIT_WINDOW old is admitted.
C2_CapThenWindow ==
  \A w \in Workers :
    Checked(w) =>
      /\ EarlierInWindow(w) >= RATE_LIMIT_REQUESTS => th[w].allowed = "no"
      /\ (\A t \in Times : EarlierAt(w, t) > 0
                             => th[w].now - t >= RATE_LIMIT_WINDOW)
           => th[w].allowed = "yes"

\* C2, its case: a client that had RATE_LIMIT_REQUESTS requests admitted at
\* one instant is admitted again exactly RATE_LIMIT_WINDOW later.
C2_Witness ==
  \E w \in Workers :
    /\ Checked(w)
    /\ th[w].allowed = "yes"
    /\ th[w].now >= RATE_LIMIT_WINDOW
    /\ EarlierAt(w, th[w].now - RATE_LIMIT_WINDOW) = RATE_LIMIT_REQUESTS

\* ------------------------------------------------------- request stages

BodyValid(w) == ValidateBody(th[w].endpoint, th[w].body).ok

\* The stages in order, each reporting before the later ones are run.
StageOrder ==
  \A w \in Workers :
    /\ th[w].allowed # "pending" => th[w].cred = API_KEY
    /\ th[w].pc \in {"validate", "handler"} /\ th[w].endpoint # "health"
         => th[w].allowed = "yes"
    /\ Answered(w) =>
         /\ th[w].cred = NoCred => th[w].resp.status \in {401, 403}
         /\ th[w].cred \notin {API_KEY, NoCred} => th[w].resp.status = 401
         /\ th[w].allowed = "no" => th[w].resp.status = 429
         /\ th[w].allowed = "yes" /\ ~BodyValid(w) => th[w].resp.status = 422

\* C3: the checks run in the order authenticate, rate-limit, validate and
\* the earliest failing one is reported: a wrong credential gives 401, and
\* the request after RATE_LIMIT_REQUESTS admitted ones inside one window
\* gives 429, its payload valid or not.
C3_EarliestStage ==
  /\ StageOrder
  /\ \A w \in Workers :
       (Answered(w) /\ th[w].cred = API_KEY
          /\ EarlierInWindow(w) >= RATE_LIMIT_REQUESTS)
         => th[w].resp.status = 429

\* C4: the backend is called for a request only after the request has
\* passed authentication, the rate limit and validation.
C4_BackendAfterChecks ==
  \A w \in Workers :
    (th[w].called \/ (th[w].pc = "handler" /\ th[w].endpoint # "health"))
      => /\ th[w].cred = API_KEY
         /\ th[w].allowed = "yes"
         /\ BodyValid(w)

\* C4, its case: a request that passed the three checks has had its
\* backend called and been answered.
C4_Witness ==
  \E w \in Workers :
    /\ Answered(w)
    /\ th[w].called
    /\ th[w].resp.status = 200

\* The fixed message of an endpoint's except clause.
GenericFailure(endpoint) ==
  IF endpoint = "classify" THEN "Failed to process classification request"
  ELSE "Failed to process reply generation request"

\* C5: when the backend call fails, the answer is a 500 error whose message
\* is the endpoint's fixed one, never the exception's text.
C5_BackendFailure ==
  \A w \in Workers :
    (Answered(w) /\ th[w].called /\ th[w].failed) =>
      /\ th[w].resp.status = 500
      /\ th[w].resp.kind = "error"
      /\ th[w].resp.detail = GenericFailure(th[w].endpoint)

\* C5, its case: a /classify request whose backend call failed has been
\* answered.
C5_Witness ==
  \E w \in Workers :
    /\ Answered(w)
    /\ th[w].endpoint = "classify"
    /\ th[w].called
    /\ th[w].failed

\* --------------------------------------------------------- reply cleanup

CleanDone == stage = "clean_done"

\* The role prefix the text starts with at its first character, <<>> if none.
LeadingPrefix(s) ==
  IF Len(s) >= 5 /\ SubSeq(s, 1, 5) = <<"U", "s", "e", "r", ":">>
  THEN <<"U", "s", "e", "r", ":">>
  ELSE IF Len(s) >= 8
          /\ SubSeq(s, 1, 8) = <<"S", "c", "a", "m", "m", "e", "r", ":">>
  THEN <<"S", "c", "a", "m", "m", "e", "r", ":">>
  ELSE <<>>

\* How many times p occurs in s.
Occurrences(s, p) ==
  Cardinality({i \in 1..(Len(s) - Len(p) + 1) : SubSeq(s, i, i + Len(p) - 1) = p})

PrefixOccurrences(s) ==
  Occurrences(s, <<"U", "s", "e", "r", ":">>)
    + Occurrences(s, <<"S", "c", "a", "m", "m", "e", "r", ":">>)

\* C11: cleanup removes exactly one role prefix and only at the very start:
\* a text starting with "User:" or "Scammer:" loses that one prefix and the
\* rest is trimmed, any other text is only trimmed, and every later
\* occurrence of a prefix stays in place.
C11_OneLeadingPrefix ==
  CleanDone =>
    /\ output = Strip(SubSeq(input, Len(LeadingPrefix(input)) + 1, Len(input)))
    /\ PrefixOccurrences(output)
         = PrefixOccurrences(input) - (IF LeadingPrefix(input) = <<>> THEN 0 ELSE 1)

\* C11, its case: a text of two role prefixes in a row has been cleaned and
\* the second prefix is still there.
C11_Witness ==
  /\ CleanDone
  /\ LeadingPrefix(input) # <<>>
  /\ PrefixOccurrences(input) >= 2
  /\ LeadingPrefix(output) # <<>>

GenerateDone == stage = "generate_done"

\* What is left of the backend's text once the one leading prefix is removed
\* and the rest trimmed.
Cleaned == Strip(SubSeq(input, Len(LeadingPrefix(input)) + 1, Len(input)))

\* C12: when the reply is empty after cleanup, /generate-reply answers a
\* 500 failure, and a success response never carries an empty reply.
C12_EmptyGeneration ==
  GenerateDone =>
    /\ Cleaned = <<>> => (output.status = 500 /\ output.kind = "error")
    /\ output.status = 200 => (output.kind = "reply" /\ output.reply # <<>>)

\* C12, its case: a backend text that is only a role prefix and a space has
\* been answered with the failure.
C12_Witness ==
  /\ GenerateDone
  /\ LeadingPrefix(input) # <<>>
  /\ Len(input) > Len(LeadingPrefix(input))
  /\ Cleaned = <<>>
  /\ output.status = 500

\* ------------------------------------------------------------ transcript

TranscriptDone == stage = "transcript_done" /\ output.resp.status # 422

RoleName(role) ==
  IF role = "user" THEN <<"U", "s", "e", "r">>
  ELSE <<"S", "c", "a", "m", "m", "e", "r">>

\* Message i as it must stand in the transcript.
Rendered(i) ==
  RoleName(input[i].role) \o <<":", SP>> \o Strip(input[i].content)

\* Where message i must start in the transcript.
RECURSIVE RenderedStart(_)
RenderedStart(i) ==
  IF i = 1 THEN 1 ELSE RenderedStart(i - 1) + Len(Rendered(i - 1)) + 1

RECURSIVE RenderedTotal(_)
RenderedTotal(n) ==
  IF n = 0 THEN 0
  ELSE RenderedTotal(n - 1) + Len(RoleName(input[n].role)) + 2
         + Len(Strip(input[n].content))

\* C13: the transcript handed to the backend is the messages in input
\* order, each as "<Role>: <trimmed content>", joined by single newlines,
\* and conversation_length is the length of exactly that transcript: the
\* sum of len(Role) + 2 + len(content), plus n - 1.
C13_Transcript ==
  TranscriptDone =>
    /\ Len(output.sent) = RenderedTotal(Len(input)) + (Len(input) - 1)
    /\ \A i \in 1..Len(input) :
         /\ SubSeq(output.sent, RenderedStart(i),
                   RenderedStart(i) + Len(Rendered(i)) - 1) = Rendered(i)
         /\ i < Len(input)
              => output.sent[RenderedStart(i) + Len(Rendered(i))] = NL
    /\ output.resp.status = 200
    /\ output.resp.conversation_length = Len(output.sent)

\* C13, its case: a conversation of two messages of different roles, one
\* with surrounding whitespace, has been flattened.
C13_Witness ==
  /\ TranscriptDone
  /\ Len(input) = 2
  /\ input[1].role # input[2].role
  /\ Strip(input[1].content) # input[1].content
  /\ output.resp.conversation_length > 0

\* ---------------------------------------------------------------- logging

Logging == stage \in {"startup", "request", "auth", "response", "logged"}

\* s holds p as a run of consecutive characters.
Contains(s, p) ==
  \E i \in 1..(Len(s) - Len(p) + 1) : SubSeq(s, i, i + Len(p) - 1) = p

\* C14: no log entry holds the full presented credential or the full
\* configured key; of a value longer than the logged prefix at most that
\* prefix is logged, whichever logging path handles the request.
C14_NoFullCredential ==
  Logging =>
    \A i \in 1..Len(output) :
      /\ (input.header /\ Len(input.cred) > LOG_PREFIX)
           => ~Contains(output[i].arg, input.cred)
      /\ Len(input.key) > LOG_PREFIX => ~Contains(output[i].arg, input.key)

\* ----------------------------------------------------------------- health

\* Worker w takes a step of a health request.
HealthStepOf(w) ==
  /\ th'[w] # th[w]
  /\ th[w].endpoint = "health" \/ th'[w].endpoint = "health"

\* C15: a health request is neither authenticated nor rate-limited:
\* whatever credential it presents and whatever its client's record holds,
\* it goes straight to its handler, is answered 200 "healthy", and no step
\* of it changes any client's rate-limit record.
C15_HealthOpen ==
  [][\A w \in Workers :
       HealthStepOf(w) =>
         /\ requests' = requests
         /\ admits' = admits
         /\ th'[w].pc \in {"handler", "done", "idle"}
         /\ th'[w].allowed = "pending"
         /\ th'[w].pc = "done"
              => /\ th'[w].resp.status = 200
                 /\ th'[w].resp.kind = "health"
                 /\ th'[w].resp.detail = "healthy"]_vars

\* C15, its case: a health request without the configured key, from a
\* client whose record is at the cap, has been answered "healthy".
C15_Witness ==
  \E w \in Workers :
    /\ th[w].pc = "done"
    /\ th[w].endpoint = "health"
    /\ th[w].cred # API_KEY
    /\ Len(requests[ClientIp(th[w].client)]) >= RATE_LIMIT_REQUESTS
    /\ th[w].resp.detail = "healthy"

\* -------------------------------------------------------------- eviction

CountIn(list, t) == Cardinality({i \in 1..Len(list) : list[i] = t})

\* Worker w runs the list comprehension of is_allowed, or stores its result.
FilterStepOf(w) == th[w].pc = "rl_filter" /\ th'[w].pc = "rl_assign"
AssignStepOf(w) == th[w].pc = "rl_assign" /\ th'[w].pc = "rl_check"

\* C16, as claimed: step 1 of a check removes the timestamps t < now - window
\* and keeps those with t >= now - window, one exactly a window old included.
C16_KeepsWindowOld ==
  [][\A w \in Workers :
       /\ FilterStepOf(w) =>
            \A t \in Times :
              CountIn(th'[w].kept, t)
                = IF t >= th[w].now - RATE_LIMIT_WINDOW
                  THEN CountIn(requests[ClientIp(th[w].client)], t) ELSE 0
       /\ AssignStepOf(w) => requests'[ClientIp(th[w].client)] = th[w].kept]_vars

\* C16, amended: step 1 of a check removes the timestamps t <= now - window,
\* one exactly a window old included, and keeps those with t > now - window.
C16_EvictsWindowOld ==
  [][\A w \in Workers :
       /\ FilterStepOf(w) =>
            \A t \in Times :
              CountIn(th'[w].kept, t)
                = IF t > th[w].now - RATE_LIMIT_WINDOW
                  THEN CountIn(requests[ClientIp(th[w].client)], t) ELSE 0
       /\ AssignStepOf(w) => requests'[ClientIp(th[w].client)] = th[w].kept]_vars

\* C16, its case: a check made exactly a window after RATE_LIMIT_REQUESTS
\* admissions of its client has emptied the client's record.
C16_Witness ==
  \E w \in Workers :
    /\ th[w].pc = "rl_check"
    /\ th[w].now >= RATE_LIMIT_WINDOW
    /\ admits[ClientIp(th[w].client)][th[w].now - RATE_LIMIT_WINDOW]
         = RATE_LIMIT_REQUESTS
    /\ requests[ClientIp(th[w].client)] = <<>>

\* ------------------------------------------------------ rejected checks

\* Worker w's check is rejected in this step.
RejectStepOf(w) == th[w].pc = "rl_check" /\ th'[w].allowed = "no"

\* The rejecting step records nothing.
RejectRecordsNothing ==
  [][\A w \in Workers :
       RejectStepOf(w) => (requests' = requests /\ admits' = admits)]_vars

\* A client's record holds only timestamps of admitted requests.
OnlyAdmittedRecorded ==
  \A ip \in Hosts : \A t \in Times : Recorded(ip, t) <= admits[ip][t]

\* A request whose client's admitted requests are all at least a window old
\* is admitted, whatever requests were rejected in between.
NotPostponed ==
  \A w \in Workers :
    (Checked(w) /\ \A t \in Times :
                     EarlierAt(w, t) > 0 => th[w].now - t >= RATE_LIMIT_WINDOW)
      => th[w].allowed = "yes"

\* C17: a rejected check records no timestamp of its own: the record holds
\* only timestamps of admitted requests, so rejected requests, however many,
\* do not postpone the client's next admission.
C17_RejectedNotRecorded == OnlyAdmittedRecorded /\ NotPostponed

\* ------------------------------------------------- what the limiter counts

LimiterStages ==
  {"rl_now", "rl_filter", "rl_assign", "rl_check", "rl_fetch", "rl_append"}

\* A request without the configured key never gets to the limiter.
WrongKeyNeverChecked ==
  \A w \in Workers :
    th[w].cred # API_KEY
      => (th[w].allowed = "pending" /\ th[w].pc \notin LimiterStages)

\* A client's record changes only in a limiter step of a request that
\* presented the configured key.
RecordChangedByKeyHolder ==
  [][requests' # requests
       => \E w \in Workers : /\ th[w].cred = API_KEY
                             /\ th[w].pc \in {"rl_assign", "rl_append"}
                             /\ th'[w] # th[w]]_vars

\* An admitted request stands in its client's record while it is validated,
\* handled and answered, whatever the outcome, until it is a window old.
AdmittedCounts ==
  \A w \in Workers :
    th[w].allowed = "yes"
      => /\ th[w].pc \in {"validate", "handler", "done"}
         /\ th[w].now \in Window(clock)
              => Recorded(ClientIp(th[w].client), th[w].now) >= 1

\* C18: a timestamp is recorded exactly for the requests that presented the
\* configured key and were admitted: a request with a missing or wrong key
\* never reaches the limiter, and an admitted request stays counted even if
\* its body is then refused or its backend call fails.
C18_CountedIffAdmitted == WrongKeyNeverChecked /\ AdmittedCounts

\* ------------------------------------------------------ client isolation

\* The identifier a request's client is known by.
ClientId(w) == IF th[w].client = NoClient THEN "127.0.0.1" ELSE th[w].client

\* Worker w takes a step of a rate-limit check.
CheckStepOf(w) == th[w].pc \in LimiterStages /\ th'[w].pc # th[w].pc

\* C19: the windows are isolated per client: no step of a check for one
\* client changes another client's record or what has been admitted for it,
\* and a request is rejected only on RATE_LIMIT_REQUESTS admitted requests
\* of its own client, however many other clients had admitted.
C19_Isolated ==
  /\ [][\A w \in Workers :
          CheckStepOf(w) =>
            \A ip \in DOMAIN requests \ {ClientId(w)} :
              requests'[ip] = requests[ip] /\ admits'[ip] = admits[ip]]_vars
  /\ [](\A w \in Workers :
          th[w].allowed = "no"
            => AdmitsIn(ClientIp(th[w].client), Times) >= RATE_LIMIT_REQUESTS)

\* C19, its case: a client has been admitted while another client's record
\* stands at the cap.
C19_Witness ==
  \E w \in Workers :
    /\ Checked(w)
    /\ th[w].allowed = "yes"
    /\ \E ip \in Hosts \ {ClientIp(th[w].client)} :
         Len(requests[ip]) >= RATE_LIMIT_REQUESTS

====
